---- MODULE Spec2Model ----
(***************************************************************************)
(* Model of package bufs (bufs.go): a Buffers value is a Go slice of byte  *)
(* slices p.  Its backing array holds cap(p) slots, the first len(p) of    *)
(* which are free; the slots behind len(p) are checked out.               *)
(*                                                                         *)
(* A byte slice is a header [id, len, cap]: id names the backing storage   *)
(* (0 for the nil slice), and mem maps every live storage to its bytes.    *)
(* Go indexes from 0; sequences here index from 1, so b[i] of the source   *)
(* is At(b, i).                                                            *)
(***************************************************************************)
EXTENDS Integers, Sequences, FiniteSets, TLC

\* Largest pool capacity given to New.
MaxCap == 2
\* Largest size requested from Alloc/Calloc.
MaxN == 2

\* A byte is 0 or, standing for every other value, 1.
Byte == {0, 1}

VARIABLES
    slots,   \* backing array of *p, a sequence of cap(p) slice headers
    active,  \* len(p): the free region is slots[1..active]
    mem,     \* storage id -> bytes of that storage
    held,    \* buffers returned by Alloc/Calloc calls not yet matched by a Free, oldest first
    made,    \* number of make([]byte, n) calls so far, counted up to cap(p) + 1
    same,    \* the size of every successful Alloc/Calloc so far: NoSize before the first, Mixed once two differ
    op,      \* the last call: "New", "Alloc", "Calloc", "Free", "Stats", "Write"
    n,       \* the size argument of the last Alloc/Calloc
    r,       \* the slice returned by the last successful Alloc/Calloc
    grew,    \* TRUE iff the last Alloc/Calloc made new storage
    prior,   \* the bytes the storage of r held when the last Alloc/Calloc was called
    bytes,   \* the result of the last Stats
    fault    \* outcome of the last call: NoFault or the panic it raised

vars == <<slots, active, mem, held, made, same, op, n, r, grew, prior, bytes, fault>>

\* -------------------------------------------------------------------------
\* Go values

NilSlice == [id |-> 0, len |-> 0, cap |-> 0]

NoFault == "none"
ErrOutOfBuffers == "Buffers.Alloc: out of buffers"
ErrSliceBounds == "runtime error: slice bounds out of range"

\* The panics the Go runtime raises, as opposed to panic(errors.New(...)).
RuntimeFaults == {ErrSliceBounds}

\* Values of same: no request yet, every request of size k, requests of
\* different sizes.
NoSize == <<>>
AllOf(k) == <<k>>
Mixed == <<0, 0>>

\* b[i], 0-based as in the source.
At(b, i) == b[i + 1]

\* b[:k]
Prefix(b, k) == SubSeq(b, 1, k)

Zeros(k) == [i \in 1..k |-> 0]

\* make([]byte, k) with storage identity id.
Make_M(k, id) == [id |-> id, len |-> k, cap |-> k + 1]
Make(k, id) == [id |-> id, len |-> k, cap |-> k]

\* The storage make() hands out: one that no slice of the array s refers to.
FreshId(s) == CHOOSE i \in 1..(Len(s) + 1) : \A j \in 1..Len(s) : s[j].id # i

\* make(Buffers, c)
New_M(c) == [i \in 1..c |-> Make(1, i)]
New(c) == [i \in 1..c |-> NilSlice]

\* -------------------------------------------------------------------------
\* Alloc

\* if len(b) == 0 { panic(...) }
OutOfBuffers_M(b) == Len(b) <= 1
OutOfBuffers(b) == Len(b) = 0

\* The outcome of the check Alloc starts with, on the free region b.
AllocFault_M(b) == IF Len(b) = 0 THEN ErrSliceBounds ELSE NoFault
AllocFault(b) == IF OutOfBuffers(b) THEN ErrOutOfBuffers ELSE NoFault

\* if ln >= biggest
IsBigger(ln, biggest) == ln >= biggest

\* if ln >= n && (bestI < 0 || best > ln)
IsBetter_M(ln, k, best, bestI) == ln >= k /\ (bestI < 0 \/ best < ln)
IsBetter(ln, k, best, bestI) == ln >= k /\ (bestI < 0 \/ best > ln)

\* var biggest, best int; biggestI, bestI := -1, -1
ScanInit == [biggest |-> 0, best |-> 0, biggestI |-> -1, bestI |-> -1]

\* One iteration of "for i, v := range b".
ScanStep(st, i, v, k) ==
    LET ln == v.len
        s1 == IF IsBigger(ln, st.biggest)
              THEN [st EXCEPT !.biggest = ln, !.biggestI = i]
              ELSE st
    IN  IF IsBetter(ln, k, s1.best, s1.bestI)
        THEN [s1 EXCEPT !.best = ln, !.bestI = i]
        ELSE s1

RECURSIVE ScanFrom(_, _, _, _)
ScanFrom(b, k, i, st) ==
    IF i >= Len(b) THEN st
    ELSE ScanFrom(b, k, i + 1, ScanStep(st, i, At(b, i), k))

\* The whole scan loop over the free region b for a request of k bytes.
Scan(b, k) == ScanFrom(b, k, 0, ScanInit)

\* if best >= n
Fits_M(best, k) == best > k
Fits_Never(best, k) == FALSE
Fits(best, k) == best >= k

\* r = b[bestI]; ...; return
Reused(v, k) == v

\* b[i] = r, the slot that is regrown
Victim_M(st) == 0
Victim(st) == st.biggestI

\* b[last], b[j] = b[j], b[last] on the backing array
Swap_M(s, last, j) == s
Swap(s, last, j) == [s EXCEPT ![last + 1] = s[j + 1], ![j + 1] = s[last + 1]]

\* What Alloc(k) does to a pool with backing array s and len a, when
\* make() would hand out storage id: the new array and len, the returned
\* slice, whether storage was made and which storage lost its last
\* reference from the pool.
AllocResult(s, a, id, k) ==
    LET b == Prefix(s, a)
        st == Scan(b, k)
        last == Len(b) - 1
    IN  IF Fits(st.best, k)
        THEN [slots |-> Swap(s, last, st.bestI),
              active |-> last,
              r |-> Reused(At(b, st.bestI), k),
              grew |-> FALSE,
              dropped |-> 0]
        ELSE LET fresh == Make(k, id)
                 i == Victim(st)
                 s1 == [s EXCEPT ![i + 1] = fresh]
             IN  [slots |-> Swap(s1, last, i),
                  active |-> last,
                  r |-> fresh,
                  grew |-> TRUE,
                  dropped |-> At(b, i).id]

\* The heap after Alloc: made storage is zeroed, storage no longer
\* referenced by the pool is collected.
AllocMem(m, res) ==
    IF res.grew
    THEN [i \in (DOMAIN m \ {res.dropped}) \cup {res.r.id} |->
            IF i = res.r.id THEN Zeros(res.r.cap) ELSE m[i]]
    ELSE m

\* for i := range r { r[i] = 0 }
ZeroRange_M(v) == 2..v.len
ZeroRange(v) == 1..v.len

Zeroed(m, v) ==
    IF v.id \in DOMAIN m
    THEN [m EXCEPT ![v.id] = [i \in DOMAIN m[v.id] |->
                                 IF i \in ZeroRange(v) THEN 0 ELSE m[v.id][i]]]
    ELSE m

\* The caller's record of a buffer it got for a request of k bytes.
Handle(v, k) == [id |-> v.id, len |-> v.len, cap |-> v.cap, n |-> k]

\* Alloc or Calloc (name) called with size k.
Acquire(name, k) ==
    /\ op' = name
    /\ n' = k
    /\ bytes' = 0
    /\ IF OutOfBuffers(Prefix(slots, active))
       THEN /\ fault' = AllocFault(Prefix(slots, active))
            /\ r' = NilSlice
            /\ grew' = FALSE
            /\ prior' = <<>>
            /\ UNCHANGED <<slots, active, mem, held, made, same>>
       ELSE LET res == AllocResult(slots, active, FreshId(slots), k)
                m1 == AllocMem(mem, res)
            IN  /\ fault' = AllocFault(Prefix(slots, active))
                /\ slots' = res.slots
                /\ active' = res.active
                /\ r' = res.r
                /\ grew' = res.grew
                /\ prior' = IF res.r.id \in DOMAIN mem THEN mem[res.r.id] ELSE <<>>
                /\ mem' = IF name = "Calloc" THEN Zeroed(m1, res.r) ELSE m1
                /\ held' = Append(held, Handle(res.r, k))
                /\ made' = IF res.grew /\ made <= Len(slots) THEN made + 1 ELSE made
                /\ same' = IF same \in {NoSize, AllOf(k)} THEN AllOf(k) ELSE Mixed

Alloc == \E k \in 0..MaxN : Acquire("Alloc", k)

Calloc == \E k \in 0..MaxN : Acquire("Calloc", k)

\* -------------------------------------------------------------------------
\* Free

\* b = b[:len(b)+1] panics when len(b)+1 > cap(b)
BeyondCap_M(newLen, c) == newLen >= c
BeyondCap(newLen, c) == newLen > c

\* len(p) after Free on a pool of len a and cap c: a panic of the reslice
\* comes before the store *p = b.
FreeLen_M(a, c) == (a + 1) % (c + 1)
FreeLen(a, c) == IF BeyondCap(a + 1, c) THEN a ELSE a + 1

Free ==
    /\ op' = "Free"
    /\ n' = 0
    /\ r' = NilSlice
    /\ grew' = FALSE
    /\ prior' = <<>>
    /\ bytes' = 0
    /\ UNCHANGED <<slots, mem, made, same>>
    /\ active' = FreeLen(active, Len(slots))
    /\ IF BeyondCap(active + 1, Len(slots))
       THEN /\ fault' = ErrSliceBounds
            /\ UNCHANGED held
       ELSE /\ fault' = NoFault
            /\ held' = IF held = <<>> THEN held ELSE Prefix(held, Len(held) - 1)

\* -------------------------------------------------------------------------
\* Stats

\* b = b[:cap(b)]
WholeArray_M(s, a) == Prefix(s, a)
WholeArray(s, a) == Prefix(s, Len(s))

RECURSIVE SumCap(_)
SumCap(b) == IF b = <<>> THEN 0 ELSE Head(b).cap + SumCap(Tail(b))

\* The value Stats() returns for a pool with backing array s and len a.
StatsOf(s, a) == SumCap(WholeArray(s, a))

Stats ==
    /\ op' = "Stats"
    /\ bytes' = StatsOf(slots, active)
    /\ fault' = NoFault
    /\ n' = 0
    /\ r' = NilSlice
    /\ grew' = FALSE
    /\ prior' = <<>>
    /\ UNCHANGED <<slots, active, mem, held, made, same>>

\* -------------------------------------------------------------------------
\* The caller's use of a buffer it holds, as when it hands the buffer to an
\* io.Reader: every byte of the buffer gets a value other than 0.

Filled(m, h) ==
    [m EXCEPT ![h.id] = [i \in DOMAIN m[h.id] |->
                            IF i \in 1..h.len THEN 1 ELSE m[h.id][i]]]

Write ==
    \E j \in 1..Len(held) :
        /\ held[j].len > 0
        /\ mem' = Filled(mem, held[j])
        /\ mem' # mem
        /\ op' = "Write"
        /\ fault' = NoFault
        /\ n' = 0
        /\ r' = NilSlice
        /\ grew' = FALSE
        /\ prior' = <<>>
        /\ bytes' = 0
        /\ UNCHANGED <<slots, active, held, made, same>>

\* -------------------------------------------------------------------------

Init ==
    /\ \E c \in 0..MaxCap : slots = New(c)
    /\ active = Len(slots)
    /\ mem = <<>>
    /\ held = <<>>
    /\ made = 0
    /\ same = NoSize
    /\ op = "New"
    /\ n = 0
    /\ r = NilSlice
    /\ grew = FALSE
    /\ prior = <<>>
    /\ bytes = 0
    /\ fault = NoFault

Next == Alloc \/ Calloc \/ Free \/ Stats \/ Write

Spec == Init /\ [][Next]_vars

\* The intended use scheme of the package doc: Alloc/Free pairs nested like
\* balanced parentheses, never deeper than the capacity given to New.
NextNested ==
    \/ (Len(held) < Len(slots) /\ Alloc)
    \/ (Len(held) < Len(slots) /\ Calloc)
    \/ (Len(held) > 0 /\ Free)
    \/ Stats
    \/ Write

SpecNested == Init /\ [][NextNested]_vars

\* -------------------------------------------------------------------------
\* Properties

IsAcquire(o) == o \in {"Alloc", "Calloc"}

FreeIdx == 1..active
OutIdx == (active + 1)..Len(slots)

\* Free slots a request of k bytes fits in.
FitIdx(k) == {i \in FreeIdx : slots[i].cap >= k}

RECURSIVE SumHeldCap(_)
SumHeldCap(hs) == IF hs = <<>> THEN 0 ELSE Head(hs).cap + SumHeldCap(Tail(hs))

\* C1: a successful Alloc(n)/Calloc(n) returns a buffer of length exactly n,
\* on the best-fit path as well as on the growth path.
C1_ReturnedLenIsN ==
    (IsAcquire(op) /\ fault = NoFault) => r.len = n

\* C2: Alloc/Calloc panics if and only if the number of outstanding buffers
\* equals the capacity of the pool.
C2_ExhaustedIffAllOut ==
    [][IsAcquire(op') =>
         ((fault' = ErrOutOfBuffers) <=> (Len(held) = Len(slots)))]_vars

C2_Witness ==
    /\ IsAcquire(op)
    /\ fault = ErrOutOfBuffers
    /\ Len(slots) = MaxCap
    /\ Len(held) = Len(slots)

\* C3: Free panics if and only if no buffer is outstanding.
C3_UnbalancedIffNoneOut ==
    [][op' = "Free" => ((fault' # NoFault) <=> (Len(held) = 0))]_vars

C3_Witness ==
    /\ op = "Free"
    /\ fault = ErrSliceBounds
    /\ held = <<>>
    /\ active = Len(slots)
    /\ \E i \in FreeIdx : slots[i].cap > 0

\* C4: a properly nested sequence of Alloc/Calloc/Free calls, never deeper
\* than the capacity, raises no panic, and when it is balanced every slot
\* of the pool is free again.
C4_NestedNeverFails ==
    /\ fault = NoFault
    /\ Len(held) + active = Len(slots)
    /\ (held = <<>> => active = Len(slots))

C4_Witness ==
    /\ op = "Free"
    /\ fault = NoFault
    /\ held = <<>>
    /\ Len(slots) = MaxCap
    /\ \A i \in FreeIdx : slots[i].cap > 0

\* C5: every outstanding buffer is still the storage of its checked-out
\* slot, and outstanding buffers of requests n > 0 have pairwise distinct,
\* non-nil storage.
C5_OutstandingDistinct ==
    /\ Len(held) = Len(slots) - active
    /\ \A j \in 1..Len(held) :
          /\ slots[Len(slots) - j + 1].id = held[j].id
          /\ slots[Len(slots) - j + 1].cap = held[j].cap
          /\ held[j].n > 0 => held[j].id # 0
    /\ \A i, j \in 1..Len(held) :
          (i # j /\ held[i].n > 0 /\ held[j].n > 0) => held[i].id # held[j].id

C5_Witness ==
    /\ IsAcquire(op)
    /\ grew
    /\ Len(held) = MaxCap
    /\ \A j \in 1..Len(held) : held[j].n > 0

\* C6: when some free slot has capacity >= n, Alloc(n) returns the storage
\* of the first free slot of least capacity among those, makes no storage,
\* and moves that slot to the boundary of the free region.
C6_BestFit ==
    [][(IsAcquire(op') /\ FitIdx(n') # {}) =>
         \E i \in FitIdx(n') :
            /\ \A j \in FitIdx(n') : slots[j].cap >= slots[i].cap
            /\ \A j \in FitIdx(n') : j < i => slots[j].cap > slots[i].cap
            /\ ~grew'
            /\ r'.id = slots[i].id
            /\ r'.cap = slots[i].cap
            /\ active' = active - 1
            /\ slots' = [slots EXCEPT ![active] = slots[i], ![i] = slots[active]]]_vars

C6_Witness ==
    /\ IsAcquire(op)
    /\ fault = NoFault
    /\ ~grew
    /\ n > 0
    /\ \E i \in FreeIdx : slots[i].cap > r.cap

\* C7: when no free slot has capacity >= n, Alloc(n) replaces exactly one
\* slot, a free slot of greatest capacity, by fresh storage of capacity
\* exactly n and returns that storage; every other slot keeps its storage
\* and capacity.
C7_GrowLargest ==
    [][(IsAcquire(op') /\ active > 0 /\ FitIdx(n') = {}) =>
         \E i \in FreeIdx :
            /\ \A j \in FreeIdx : slots[j].cap <= slots[i].cap
            /\ grew'
            /\ r'.cap = n'
            /\ r'.id # 0
            /\ \A j \in 1..Len(slots) : slots[j].id # r'.id
            /\ active' = active - 1
            /\ slots' = [slots EXCEPT ![active] = r', ![i] = IF i = active THEN r' ELSE slots[active]]]_vars

C7_Witness ==
    /\ IsAcquire(op)
    /\ grew
    /\ r.cap = n
    /\ prior = <<>>
    /\ \E i \in FreeIdx : slots[i].cap > 0 /\ slots[i].cap < n

\* C8: a successful Free moves into the free region exactly the slot whose
\* storage the latest unmatched Alloc/Calloc returned; the slots checked
\* out earlier stay checked out, in the same order.
C8_LifoRelease ==
    [][(op' = "Free" /\ fault' = NoFault) =>
         /\ held # <<>>
         /\ active' = active + 1
         /\ slots' = slots
         /\ slots[active'].id = held[Len(held)].id
         /\ slots[active'].cap = held[Len(held)].cap
         /\ \A j \in 1..(Len(held) - 1) :
               /\ Len(slots) - j + 1 > active'
               /\ slots'[Len(slots) - j + 1].id = held[j].id]_vars

C8_Witness ==
    /\ op = "Free"
    /\ fault = NoFault
    /\ held # <<>>
    /\ held[Len(held)].n > 0
    /\ slots[active].cap > 0
    /\ slots[active].id # held[Len(held)].id

\* C9: Stats() is the sum of the capacities of the free slots and of the
\* outstanding buffers; Stats changes nothing, and Free and an Alloc that
\* makes no storage leave its value unchanged.
C9_StatsIsTotalCap ==
    [][/\ op' = "Stats" =>
            /\ bytes' = SumCap(Prefix(slots, active)) + SumHeldCap(held)
            /\ <<slots, active, mem, held>>' = <<slots, active, mem, held>>
       /\ (op' = "Free" \/ (IsAcquire(op') /\ ~grew')) =>
            StatsOf(slots', active') = StatsOf(slots, active)]_vars

C9_Witness ==
    /\ op = "Stats"
    /\ held # <<>>
    /\ active > 0
    /\ bytes > SumHeldCap(held)
    /\ SumHeldCap(held) > 0

\* C10: Calloc(n) takes the slot Alloc(n) would take, with the same effect
\* on the pool, and the first n bytes of the buffer it returns are zero.
C10_CallocZeroed ==
    [][(op' = "Calloc" /\ fault' = NoFault) =>
         LET res == AllocResult(slots, active, FreshId(slots), n')
         IN  /\ slots' = res.slots
             /\ active' = res.active
             /\ r' = res.r
             /\ grew' = res.grew
             /\ r'.cap >= n'
             /\ \A i \in 1..n' : mem'[r'.id][i] = 0]_vars

C10_Witness ==
    /\ op = "Calloc"
    /\ fault = NoFault
    /\ n > 0
    /\ ~grew
    /\ \A i \in 1..n : prior[i] # 0 /\ mem[r.id][i] = 0

\* The array s with the slot at index i, holding v from now on, swapped
\* with the slot at index a.
Moved(s, i, a, v) == [s EXCEPT ![a] = v, ![i] = IF i = a THEN v ELSE s[a]]

AllIdx == 1..Len(slots)

\* C11: when some free slot has capacity >= n, as always for n = 0,
\* Alloc(n) makes no storage: the slots are the same slices as before, in
\* another order, and the free region is one shorter.
C11_ReuseNoAlloc ==
    [][(IsAcquire(op') /\ FitIdx(n') # {}) =>
         /\ ~grew'
         /\ made' = made
         /\ DOMAIN mem' = DOMAIN mem
         /\ active' = active - 1
         /\ \E i \in FreeIdx : slots' = Moved(slots, i, active, slots[i])]_vars

C11_Witness ==
    /\ IsAcquire(op)
    /\ fault = NoFault
    /\ ~grew
    /\ n > 0
    /\ r.cap > n
    /\ made > 0

\* C12: in a properly nested run whose requests all have the same size, a
\* buffer is made only by a call that goes deeper than every call before
\* it: when a buffer is made, the number of buffers made so far equals the
\* number then outstanding.  So a pattern of depth d makes at most d
\* buffers, all of them the first time it runs.
C12_SameSizeMakesDepth ==
    [][(IsAcquire(op') /\ same' # Mixed) =>
         /\ grew' => made' = Len(held')
         /\ made' <= Len(slots)]_vars

C12_Witness ==
    /\ IsAcquire(op)
    /\ fault = NoFault
    /\ ~grew
    /\ n > 0
    /\ same = AllOf(n)
    /\ Len(held) = MaxCap
    /\ made = MaxCap

AllNil == \A i \in AllIdx : slots[i] = NilSlice

\* C13: after New every slot is nil and Stats() is 0, and that stays so
\* until the first successful Alloc/Calloc of a size n > 0; Free, Stats and
\* Alloc(0) never make storage.
C13_LazyMaterialization ==
    [][/\ op = "New" => (AllNil /\ StatsOf(slots, active) = 0 /\ made = 0 /\ mem = <<>>)
       /\ (AllNil /\ ~(IsAcquire(op') /\ n' > 0 /\ fault' = NoFault)) =>
             (AllNil' /\ StatsOf(slots', active') = 0 /\ mem' = <<>>)
       /\ (op' \in {"Free", "Stats"} \/ (IsAcquire(op') /\ n' = 0)) =>
             /\ ~grew'
             /\ made' = made
             /\ DOMAIN mem' = DOMAIN mem
             /\ StatsOf(slots', active') = StatsOf(slots, active)]_vars

C13_Witness ==
    /\ IsAcquire(op)
    /\ fault = NoFault
    /\ n = 0
    /\ AllNil
    /\ made = 0
    /\ Len(held) = MaxCap

\* C14: over every step each slot, followed through the swap, keeps or
\* raises its capacity, a slot whose storage is replaced gets a strictly
\* greater capacity, and Stats() does not decrease.
C14_CapsOnlyGrow ==
    [][/\ \/ slots' = slots
          \/ \E i \in FreeIdx :
                \E v \in {slots[i], r'} :
                   /\ slots' = Moved(slots, i, active, v)
                   /\ v # slots[i] => v.cap > slots[i].cap
       /\ grew' => \E i \in FreeIdx : r'.cap > slots[i].cap /\ slots[i].id \notin DOMAIN mem'
       /\ StatsOf(slots', active') >= StatsOf(slots, active)]_vars

C14_Witness ==
    /\ IsAcquire(op)
    /\ grew
    /\ Len(slots) = 1
    /\ made = 2
    /\ r.cap = MaxN

\* The free slots of greatest capacity.
LargestIdx == {i \in FreeIdx : \A j \in FreeIdx : slots[j].cap <= slots[i].cap}

FirstOf(S) == CHOOSE i \in S : \A j \in S : i <= j
LastOf(S) == CHOOSE i \in S : \A j \in S : j <= i

\* The step regrows the slot at index i and swaps it to the boundary.
RegrownAt(i) ==
    slots' = [slots EXCEPT ![active] = r', ![i] = IF i = active THEN r' ELSE slots[active]]

\* C15: when no free slot fits and several free slots share the greatest
\* capacity, the slot regrown is the first of them in scan order.
C15_FirstOfLargestRegrown ==
    [][(IsAcquire(op') /\ grew') => RegrownAt(FirstOf(LargestIdx))]_vars

\* C15 as amended: the slot regrown is the last of them in scan order; the
\* equal slots earlier in scan order keep their storage.
C15_LastOfLargestRegrown ==
    [][(IsAcquire(op') /\ grew') =>
         /\ RegrownAt(LastOf(LargestIdx))
         /\ \A i \in LargestIdx : i # LastOf(LargestIdx) =>
               \E j \in FreeIdx : j <= active' /\ slots'[j] = slots[i]]_vars

C15_Witness ==
    /\ IsAcquire(op)
    /\ grew
    /\ Len(held) = 1
    /\ made = MaxCap + 1
    /\ \E i \in FreeIdx : slots[i].cap > 0 /\ slots[i].cap < r.cap

\* C16: Calloc(n) zeroes only the n requested bytes: the bytes of the reused
\* storage at offsets >= n keep the content they had before the call.
C16_ZeroesOnlyRequested ==
    (op = "Calloc" /\ fault = NoFault /\ ~grew) =>
        \A i \in (n + 1)..Len(prior) : mem[r.id][i] = prior[i]

C19_FailedCallChangesNothing ==
    [][fault' # NoFault =>
         /\ slots' = slots
         /\ active' = active
         /\ mem' = mem
         /\ held' = held
         /\ made' = made
         /\ StatsOf(slots', active') = StatsOf(slots, active)]_vars

C19_Witness ==
    /\ op = "Free"
    /\ fault # NoFault
    /\ active = Len(slots)
    /\ Len(slots) = MaxCap
    /\ \E i \in DOMAIN mem : \E j \in DOMAIN mem[i] : mem[i][j] # 0

CapsOf(s) == {s[i].cap : i \in 1..Len(s)}

\* C20: the number of slots never changes, 0 <= len(p) <= cap(p) with
\* len(p) = cap(p) - (number of outstanding buffers), and every capacity of
\* a slot is 0, a capacity a slot had before, or the size of the request
\* of this step; so Stats() <= cap(p) * (largest size requested).
C20_PoolBounds ==
    [][/\ Len(slots') = Len(slots)
       /\ 0 <= active /\ active <= Len(slots)
       /\ 0 <= active' /\ active' <= Len(slots')
       /\ active' = Len(slots') - Len(held')
       /\ CapsOf(slots) \subseteq 0..MaxN
       /\ CapsOf(slots') \subseteq
             CapsOf(slots) \cup (IF IsAcquire(op') /\ fault' = NoFault THEN {n'} ELSE {})
       /\ StatsOf(slots', active') <= Len(slots') * MaxN]_vars

C20_Witness ==
    /\ Len(slots) = MaxCap
    /\ active = 0
    /\ Len(held) = MaxCap
    /\ StatsOf(slots, active) = MaxCap * MaxN

====
